---- MODULE Spec2Model ----
(***************************************************************************)
(* A model of dmatcher (src/src/lib.rs): a trie of domain labels, built    *)
(* from the top-level label down, with an optional payload on every node.  *)
(*                                                                         *)
(* A text is a sequence of one-character strings.  A label is a non-empty  *)
(* sequence of characters, a name a sequence of labels in their written    *)
(* order, and a path a name reversed (the order the trie is walked in).    *)
(* Option<T> is a sequence of length at most one: None is << >> and        *)
(* Some(p) is <<p>>.                                                       *)
(***************************************************************************)
EXTENDS Integers, Sequences, FiniteSets, TLC

\* The longest domain, query or rule text an operation is given.
MaxLen == 3

\* The number of calls (insert, insert_lines, matches) in one run.
MaxOps == 3

DOT == "."
NL == "\n"
SPACE == " "

\* The characters of a domain: two letters, the separator, and a whitespace
\* character, which no label may hold.
DomainChars == {"a", "b", DOT, SPACE}

\* The characters of a rule text: a letter, the line separator and the
\* whitespace character.  Every line of a text goes through insert, which
\* Domains exercises with all the characters of a domain.
TextChars == {"a", NL, SPACE}

\* The payloads (the T of Dmatcher<T>).
Payloads == {1, 2}

StringsOver(chars) == UNION {[1..n -> chars] : n \in 0..MaxLen}

Domains == StringsOver(DomainChars)

Texts == StringsOver(TextChars)

None == << >>

Some(p) == <<p>>

Reverse(s) == [i \in 1..Len(s) |-> s[Len(s) + 1 - i]]

EmptyMap == [l \in {} |-> None]

\* LevelNode::new
LevelNodeNew == [dst |-> None, next_lvs |-> EmptyMap]

(***************************************************************************)
(* IntoName::into_name for &str: the trust-dns name parser the code calls. *)
(* It reads the text character by character: a dot ends the label read so  *)
(* far, which must not be empty; a whitespace character is refused; the    *)
(* label left at the end, if any, is the last one.  The text "." is the    *)
(* root name, and so is the empty text: both have no label.  The labels of *)
(* a parsed name are valid, so Label::from_raw_bytes, which insert and     *)
(* matches apply to each of them, returns Ok.  Labels compare without      *)
(* regard to case; the letters here are lower-case.                        *)
(***************************************************************************)
RECURSIVE parse_from(_, _, _, _)
parse_from(s, i, label, labels) ==
    IF i > Len(s)
    THEN [ok |-> TRUE,
          labels |-> IF label = << >> THEN labels ELSE Append(labels, label)]
    ELSE IF s[i] = DOT
         THEN IF label = << >>
              THEN [ok |-> FALSE, labels |-> << >>]
              ELSE parse_from(s, i + 1, << >>, Append(labels, label))
         ELSE IF s[i] = SPACE
              THEN [ok |-> FALSE, labels |-> << >>]
              ELSE parse_from(s, i + 1, Append(label, s[i]), labels)

into_name(s) ==
    IF s = <<DOT>>
    THEN [ok |-> TRUE, labels |-> << >>]
    ELSE parse_from(s, 1, << >>, << >>)

\* str::split: the pieces of s between occurrences of sep; the empty text
\* has one piece, the empty one, and a trailing sep leaves an empty last piece.
RECURSIVE split_from(_, _, _, _)
split_from(s, sep, i, piece) ==
    IF i > Len(s)
    THEN <<piece>>
    ELSE IF s[i] = sep
         THEN <<piece>> \o split_from(s, sep, i + 1, << >>)
         ELSE split_from(s, sep, i + 1, Append(piece, s[i]))

split(s, sep) == split_from(s, sep, 1, << >>)

VARIABLES
    root,   \* the matcher's trie (Dmatcher::root)
    rules,  \* history: path -> payload of the latest successful insert of it
    last,   \* history: the last call, the trie before it, and what it returned
    ops     \* history: the number of calls made

vars == <<root, rules, last, ops>>

\* A faulty or_insert_with: HashMap::insert of a new node, which drops the
\* node the map already has under lv.
or_insert_replacing(next_lvs, lv) == LevelNodeNew

\* HashMap::entry(lv).or_insert_with(LevelNode::new): the node under lv, a
\* new one when the map has none.
or_insert_with(next_lvs, lv) ==
    IF lv \in DOMAIN next_lvs THEN next_lvs[lv] ELSE LevelNodeNew

\* The map with the node under lv replaced; every other entry is kept.
with_entry(next_lvs, lv, node) ==
    [l \in DOMAIN next_lvs \cup {lv} |-> IF l = lv THEN node ELSE next_lvs[l]]

\* A faulty set_dst: the first payload written to a node stays.
set_dst_if_none(node, dst) ==
    IF node.dst = None THEN [node EXCEPT !.dst = Some(dst)] ELSE node

\* ptr.dst = Some(dst)
set_dst(node, dst) == [node EXCEPT !.dst = Some(dst)]

\* A faulty insert_walk: the payload is assigned inside the loop, to every
\* node the walk visits.
RECURSIVE insert_walk_marking(_, _, _)
insert_walk_marking(node, lvs, dst) ==
    IF lvs = << >>
    THEN [node EXCEPT !.dst = Some(dst)]
    ELSE [node EXCEPT
            !.dst = Some(dst),
            !.next_lvs =
              [l \in DOMAIN @ \cup {Head(lvs)} |->
                 IF l = Head(lvs)
                 THEN insert_walk_marking(
                        IF l \in DOMAIN @ THEN @[l] ELSE LevelNodeNew,
                        Tail(lvs), dst)
                 ELSE @[l]]]

\* The loop of insert over the reversed labels, and the assignment after it.
RECURSIVE insert_walk(_, _, _)
insert_walk(node, lvs, dst) ==
    IF lvs = << >>
    THEN set_dst(node, dst)
    ELSE [node EXCEPT !.next_lvs =
            with_entry(@, Head(lvs),
                       insert_walk(or_insert_with(@, Head(lvs)), Tail(lvs), dst))]

\* Dmatcher::insert: the trie after the call, and whether it returned Ok.
insert(node, domain, dst) ==
    LET name == into_name(domain)
    IN  IF name.ok
        THEN [ok |-> TRUE, root |-> insert_walk(node, Reverse(name.labels), dst)]
        ELSE [ok |-> FALSE, root |-> node]

\* A faulty insert_each: a malformed piece is skipped and the loop goes on.
RECURSIVE insert_each_skipping(_, _, _)
insert_each_skipping(node, lvs, dst) ==
    IF lvs = << >>
    THEN [ok |-> TRUE, root |-> node]
    ELSE insert_each_skipping(insert(node, Head(lvs), dst).root, Tail(lvs), dst)

\* The loop of insert_lines: one insert per piece, returning at the first Err.
RECURSIVE insert_each(_, _, _)
insert_each(node, lvs, dst) ==
    IF lvs = << >>
    THEN [ok |-> TRUE, root |-> node]
    ELSE LET r == insert(node, Head(lvs), dst)
         IN  IF r.ok
             THEN insert_each(r.root, Tail(lvs), dst)
             ELSE [ok |-> FALSE, root |-> r.root]

\* Dmatcher::insert_lines
insert_lines(node, text, dst) == insert_each(node, split(text, NL), dst)

\* A faulty matches_walk: a label that is not among the children is skipped
\* and the walk goes on from the same node.
RECURSIVE matches_walk_skipping(_, _)
matches_walk_skipping(ptr, lvs) ==
    IF lvs = << >>
    THEN [dst |-> ptr.dst, how |-> "end"]
    ELSE IF DOMAIN ptr.next_lvs = {}
         THEN [dst |-> ptr.dst, how |-> "break"]
         ELSE IF Head(lvs) \in DOMAIN ptr.next_lvs
              THEN matches_walk_skipping(ptr.next_lvs[Head(lvs)], Tail(lvs))
              ELSE matches_walk_skipping(ptr, Tail(lvs))

\* A faulty matches_walk: when the labels end at a node without a payload,
\* the payload of one of its children is returned.
RECURSIVE matches_walk_deeper(_, _)
matches_walk_deeper(ptr, lvs) ==
    IF lvs = << >>
    THEN [dst |-> IF ptr.dst = None /\ DOMAIN ptr.next_lvs # {}
                  THEN ptr.next_lvs[CHOOSE l \in DOMAIN ptr.next_lvs : TRUE].dst
                  ELSE ptr.dst,
          how |-> "end"]
    ELSE IF DOMAIN ptr.next_lvs = {}
         THEN [dst |-> ptr.dst, how |-> "break"]
         ELSE IF Head(lvs) \in DOMAIN ptr.next_lvs
              THEN matches_walk_deeper(ptr.next_lvs[Head(lvs)], Tail(lvs))
              ELSE [dst |-> None, how |-> "miss"]

\* The loop of matches over the reversed labels: the payload returned, and how
\* the walk ended ("break": at a node without children; "miss": the label is
\* not among the children; "end": every label was consumed).
RECURSIVE matches_walk(_, _)
matches_walk(ptr, lvs) ==
    IF lvs = << >>
    THEN [dst |-> ptr.dst, how |-> "end"]
    ELSE IF DOMAIN ptr.next_lvs = {}
         THEN [dst |-> ptr.dst, how |-> "break"]
         ELSE IF Head(lvs) \in DOMAIN ptr.next_lvs
              THEN matches_walk(ptr.next_lvs[Head(lvs)], Tail(lvs))
              ELSE [dst |-> None, how |-> "miss"]

\* Dmatcher::matches
matches(node, domain) ==
    LET name == into_name(domain)
    IN  IF name.ok
        THEN [ok |-> TRUE, res |-> matches_walk(node, Reverse(name.labels))]
        ELSE [ok |-> FALSE, res |-> [dst |-> None, how |-> "err"]]

NoRes == [dst |-> None, how |-> "none"]

NoName == [ok |-> TRUE, labels |-> << >>]

NoRules == [p \in {} |-> 0]

\* The history of rules after one more successful insert of each of paths.
RECURSIVE Recorded(_, _, _)
Recorded(rs, paths, dst) ==
    IF paths = << >>
    THEN rs
    ELSE Recorded([p \in DOMAIN rs \cup {Head(paths)} |->
                     IF p = Head(paths) THEN dst ELSE rs[p]],
                  Tail(paths), dst)

\* What the history keeps of one piece of a rule text: whether it is a
\* well-formed name, its labels, and whether the piece is the empty text.
Line(piece) ==
    LET name == into_name(piece)
    IN  [ok |-> name.ok, labels |-> name.labels, blank |-> piece = << >>]

Lines(text) ==
    LET lvs == split(text, NL)
    IN  [i \in 1..Len(lvs) |-> Line(lvs[i])]

\* The index of the first malformed piece, 0 when every piece is well formed.
FirstErr(lines) ==
    IF \A i \in 1..Len(lines) : lines[i].ok
    THEN 0
    ELSE CHOOSE k \in 1..Len(lines) :
           ~lines[k].ok /\ \A i \in 1..(k - 1) : lines[i].ok

\* The paths of the pieces before the first malformed one.
PathsBeforeErr(lines) ==
    LET k == FirstErr(lines)
        n == IF k = 0 THEN Len(lines) ELSE k - 1
    IN  [i \in 1..n |-> Reverse(lines[i].labels)]

\* Dmatcher::new
Init ==
    /\ root = LevelNodeNew
    /\ rules = NoRules
    /\ last = [op |-> "new", name |-> NoName, lines |-> << >>, dst |-> 0,
               pre |-> LevelNodeNew, ok |-> TRUE, res |-> NoRes]
    /\ ops = 0

Insert ==
    /\ ops < MaxOps
    /\ \E domain \in Domains, dst \in Payloads :
         LET r == insert(root, domain, dst)
             name == into_name(domain)
         IN  /\ root' = r.root
             /\ rules' = IF r.ok
                         THEN Recorded(rules, <<Reverse(name.labels)>>, dst)
                         ELSE rules
             /\ last' = [op |-> "insert", name |-> name,
                         lines |-> << >>, dst |-> dst, pre |-> root,
                         ok |-> r.ok, res |-> NoRes]
    /\ ops' = ops + 1

InsertLines ==
    /\ ops < MaxOps
    /\ \E text \in Texts, dst \in Payloads :
         LET r == insert_lines(root, text, dst)
             lines == Lines(text)
         IN  /\ root' = r.root
             /\ rules' = Recorded(rules, PathsBeforeErr(lines), dst)
             /\ last' = [op |-> "insert_lines", name |-> NoName,
                         lines |-> lines, dst |-> dst, pre |-> root,
                         ok |-> r.ok, res |-> NoRes]
    /\ ops' = ops + 1

Matches ==
    /\ ops < MaxOps
    /\ \E domain \in Domains :
         LET r == matches(root, domain)
         IN  last' = [op |-> "matches", name |-> into_name(domain),
                      lines |-> << >>, dst |-> 0, pre |-> root,
                      ok |-> r.ok, res |-> r.res]
    /\ ops' = ops + 1
    /\ UNCHANGED <<root, rules>>

Next == Insert \/ InsertLines \/ Matches

Spec == Init /\ [][Next]_vars

(***************************************************************************)
(* Reading a trie: a node is named by the path of labels that leads to it  *)
(* from the root, the root by the empty path.                              *)
(***************************************************************************)

\* The paths of all the nodes of the trie under node.
RECURSIVE Paths(_)
Paths(node) ==
    {<< >>} \cup UNION {{<<l>> \o p : p \in Paths(node.next_lvs[l])} :
                          l \in DOMAIN node.next_lvs}

\* The node at path, which is one of Paths(node).
RECURSIVE NodeAt(_, _)
NodeAt(node, path) ==
    IF path = << >> THEN node ELSE NodeAt(node.next_lvs[Head(path)], Tail(path))

\* The payload at path, None where the trie has no such node.
DstAt(node, path) ==
    IF path \in Paths(node) THEN NodeAt(node, path).dst ELSE None

\* p is a prefix of q: as paths are names reversed, the name of p equals the
\* name of q or is a label-wise suffix of it.
IsPrefix(p, q) == Len(p) <= Len(q) /\ SubSeq(q, 1, Len(p)) = p

Prefixes(path) == {SubSeq(path, 1, n) : n \in 0..Len(path)}

\* The path a matches call asked about.
Queried == Reverse(last.name.labels)

\* The rules inserted so far that the queried name equals or is a subdomain of.
Covering == {r \in DOMAIN rules : IsPrefix(r, Queried)}

\* No inserted rule is a strict subdomain of another.
Antichain == \A r1, r2 \in DOMAIN rules : IsPrefix(r1, r2) => r1 = r2

AnsweredQuery == last.op = "matches" /\ last.ok

\* C1: after any inserts, a query that equals an inserted rule or is a
\* subdomain of one reports a match (Some), whatever the other rules are.
\* Stated for the rules of at least one label, which leaves aside a rule
\* inserted as the root name.
SuffixLaw ==
    (AnsweredQuery /\ \E r \in Covering : r # << >>) => last.res.dst # None

\* C2: a query that no inserted rule equals or is a label-wise suffix of
\* reports no match (None); so does every query on the empty trie.
NegativeLaw == (AnsweredQuery /\ Covering = {}) => last.res.dst = None

\* C2's case: a query on a trie with rules, none of them covering it, that
\* walks into the trie before it stops.
NegativeLawWitness ==
    /\ AnsweredQuery
    /\ Covering = {}
    /\ DOMAIN rules # {}
    /\ Len(Queried) = 2
    /\ <<Queried[1]>> \in Paths(root)
    /\ last.res.dst = None

\* C3: when no rule is a strict subdomain of another, a query that equals a
\* rule or is a subdomain of it returns the payload of the latest insert of
\* that rule.
PayloadRetrieval ==
    (AnsweredQuery /\ Antichain) =>
        \A r \in Covering : last.res.dst = Some(rules[r])

\* C3's case: two rules on separate branches with different payloads, and a
\* query for a strict subdomain of one of them.
PayloadRetrievalWitness ==
    /\ AnsweredQuery
    /\ Antichain
    /\ \E r \in Covering, o \in DOMAIN rules :
         /\ o # r
         /\ rules[o] # rules[r]
         /\ Len(Queried) > Len(r)
         /\ last.res.dst = Some(rules[r])

\* C8: a node, the root included, holds a payload exactly when a successful
\* insert ended at it, and then the payload of the latest such insert; every
\* inserted rule has its node.
PayloadInvariant ==
    /\ DOMAIN rules \subseteq Paths(root)
    /\ \A p \in Paths(root) :
         NodeAt(root, p).dst = IF p \in DOMAIN rules THEN Some(rules[p]) ELSE None

\* C8's case: a trie with a routing node (no payload) above a rule, and a rule
\* whose payload was overwritten by a later insert.
PayloadInvariantWitness ==
    /\ \E p \in Paths(root) : p # << >> /\ NodeAt(root, p).dst = None
    /\ last.op = "insert" /\ last.ok
    /\ DstAt(last.pre, Reverse(last.name.labels))
         \notin {None, Some(last.dst)}
    /\ DstAt(root, Reverse(last.name.labels)) = Some(last.dst)

\* C9: a query whose labels lead exactly to a node that no rule was inserted
\* at consumes every label and returns None.
RoutingExact ==
    (AnsweredQuery /\ Queried \in Paths(root) /\ Queried \notin DOMAIN rules)
        => last.res = [dst |-> None, how |-> "end"]

\* C9's case: the query names a routing node that is not the root and has a
\* rule with a payload below it.
RoutingExactWitness ==
    /\ AnsweredQuery
    /\ Queried # << >>
    /\ Queried \in Paths(root)
    /\ Queried \notin DOMAIN rules
    /\ \E r \in DOMAIN rules : IsPrefix(Queried, r)
    /\ last.res = [dst |-> None, how |-> "end"]

\* The path a successful insert call was given.
Inserted == Reverse(last.name.labels)

\* C10: a successful insert adds only the missing nodes of its path, sets the
\* payload of its last node, and leaves every other node (its payload, its
\* place in the tree) as it was; no node is removed.
InsertFrame ==
    (last.op = "insert" /\ last.ok) =>
        /\ Paths(root) = Paths(last.pre) \cup Prefixes(Inserted)
        /\ DstAt(root, Inserted) = Some(last.dst)
        /\ \A p \in Paths(root) \ {Inserted} : DstAt(root, p) = DstAt(last.pre, p)

\* C10's case: an insert into a trie that already holds a rule on another
\* branch below a node of the inserted path, and that adds a node.
InsertFrameWitness ==
    /\ last.op = "insert" /\ last.ok
    /\ Len(Inserted) = 2
    /\ <<Inserted[1]>> \in Paths(last.pre)
    /\ Inserted \notin Paths(last.pre)
    /\ \E p \in Paths(last.pre) :
         Len(p) = 2 /\ p[1] = Inserted[1] /\ DstAt(last.pre, p) # None

\* The trie after one insert_walk per path, in order.
RECURSIVE InsertAll(_, _, _)
InsertAll(node, paths, dst) ==
    IF paths = << >>
    THEN node
    ELSE InsertAll(insert_walk(node, Head(paths), dst), Tail(paths), dst)

\* This step and the one before it are both successful insert calls.
TwoInserts ==
    /\ last.op = "insert" /\ last.ok
    /\ last'.op = "insert" /\ last'.ok

\* C4: insert(R, p1) followed by insert(R, p2) leaves the trie that one
\* insert(R, p2) on the trie before both leaves (nodes, child keys and
\* payloads; a query reads nothing else, so its result is the same too), and
\* the second insert adds no node.
IdempotentInsert ==
    [][(TwoInserts /\ last'.name.labels = last.name.labels) =>
         /\ root' = insert_walk(last.pre, Reverse(last'.name.labels), last'.dst)
         /\ Paths(root') = Paths(root)]_vars

\* C4's case: the second of two inserts of the same rule, of two labels, with
\* another payload than the first.
IdempotentInsertWitness ==
    /\ ops = 2
    /\ last.op = "insert" /\ last.ok
    /\ Len(Inserted) = 2
    /\ \E p \in Payloads \ {last.dst} :
         last.pre = insert_walk(LevelNodeNew, Inserted, p)
    /\ DstAt(root, Inserted) = Some(last.dst)

\* C5: two inserts of rules with different names, one of which may be a
\* subdomain of the other, leave the same trie in either order (and so, as a
\* query reads only the trie, the same result for every query).
OrderIndependent ==
    [][(TwoInserts /\ last'.name.labels # last.name.labels) =>
         root' = insert_walk(insert_walk(last.pre, Reverse(last'.name.labels),
                                         last'.dst),
                             Reverse(last.name.labels), last.dst)]_vars

\* C5's case: the second of two inserts, of a strict subdomain of the first
\* rule and with another payload.
OrderIndependentWitness ==
    /\ ops = 2
    /\ last.op = "insert" /\ last.ok
    /\ Len(Inserted) = 2
    /\ \E p \in Payloads \ {last.dst} :
         last.pre = insert_walk(LevelNodeNew, <<Inserted[1]>>, p)
    /\ DstAt(root, <<Inserted[1]>>) # Some(last.dst)

\* The paths of the pieces of a rule text that are not empty.
RECURSIVE NonBlankPaths(_)
NonBlankPaths(lines) ==
    IF lines = << >>
    THEN << >>
    ELSE (IF Head(lines).blank THEN << >> ELSE <<Reverse(Head(lines).labels)>>)
           \o NonBlankPaths(Tail(lines))

\* C6: insert_lines of a text with only well-formed lines returns Ok and
\* leaves the trie that one insert per non-empty line leaves: an empty line
\* changes nothing, the root's payload included.
BulkInsertSkipsEmptyLines ==
    (last.op = "insert_lines" /\ FirstErr(last.lines) = 0) =>
        /\ last.ok
        /\ root = InsertAll(last.pre, NonBlankPaths(last.lines), last.dst)

\* The pieces before the first malformed one, by index.
BeforeErr == 1..(FirstErr(last.lines) - 1)

\* C7: insert_lines returns Err exactly when a line is malformed; the lines
\* before the first malformed one are inserted and match afterwards, and
\* nothing else changes: no line after it is inserted.
BulkInsertAborts ==
    (last.op = "insert_lines") =>
        /\ last.ok <=> FirstErr(last.lines) = 0
        /\ FirstErr(last.lines) > 0 =>
             LET before == {Reverse(last.lines[i].labels) : i \in BeforeErr}
             IN  /\ \A p \in before : matches_walk(root, p).dst = Some(last.dst)
                 /\ Paths(root) =
                      Paths(last.pre) \cup UNION {Prefixes(p) : p \in before}
                 /\ \A p \in Paths(root) \ before :
                      DstAt(root, p) = DstAt(last.pre, p)

\* C7's case: a text whose second line is malformed, after a first line that
\* inserts a rule the trie did not hold.
BulkInsertAbortsWitness ==
    /\ last.op = "insert_lines"
    /\ ~last.ok
    /\ FirstErr(last.lines) = 2
    /\ ~last.lines[1].blank
    /\ DstAt(last.pre, Reverse(last.lines[1].labels)) = None
    /\ DstAt(root, Reverse(last.lines[1].labels)) = Some(last.dst)

====
